---- MODULE Spec2Model ----
(***************************************************************************)
(* A model of pyoperators/operators_mpi.py: the partition arithmetic       *)
(* (distribute_shape, distribute_slice) and the two distribution operators *)
(* DistributionGlobalOperator (scatter / all-gather) and                   *)
(* DistributionIdentityOperator (identity / all-reduce), run by the MPI    *)
(* processes of one communicator.                                          *)
(***************************************************************************)
EXTENDS Integers, Sequences, FiniteSets, TLC

\* ------------------------------------------------------------------ bounds
\* Largest communicator size of a run of the operators' methods.
MaxSize == 2
\* Largest first dimension (nglobal) of a global shape of such a run.
MaxN == 3
\* Largest number of transpose calls one process issues.
MaxCalls == 2
\* Largest size argument of the planner and largest communicator constructed on.
MaxPlanSize == 4
\* Largest nglobal argument of the planner and of a construction.
MaxPlanN == 16

VARIABLES
    kind,        \* what the run exercises: "plan", "DGO" or "DIO"
    shapein,     \* the global shape given by the caller (or None)
    comm_size,   \* commout.size (the size argument of the planner calls)
    nbytes,      \* itemsize of the global (output) arrays of the run
    x_global,    \* the global array the callers feed to direct
    plan,        \* plan[r]: the transpose calls process r's program issues, and
                 \*   whether it calls the identity operator in place
    op,          \* op[r]: the operator object process r constructed
    x_local,     \* x_local[r]: the array process r holds between calls
    pc,          \* pc[r]: "idle", or "wait" inside a collective
    ready,       \* ready[r]: the collective r waits in has completed
    commbuf,     \* commbuf[q]: what q contributed to the collective in progress
    gathered,    \* gathered[q]: what q contributed to the collective completed last
    entered,     \* entered[r]: transpose calls r has entered
    returned,    \* returned[r]: transpose calls r has returned from
    last,        \* the most recent call of an operator method that returned
    shape_res,   \* shape_res[rank]: result of distribute_shape(shape, rank, size)
    slice_res    \* slice_res[rank]: result of distribute_slice(nglobal, rank, size)

vars == <<kind, shapein, comm_size, nbytes, x_global, plan, op, x_local, pc,
          ready, commbuf, gathered, entered, returned, last, shape_res, slice_res>>

\* ------------------------------------------------------- Python arithmetic
\* a // b for b > 0, rounding towards minus infinity.
FloorPos(a, b) == IF a >= 0 THEN a \div b ELSE -((-a + b - 1) \div b)

\* Python's a // b (b # 0): floor division, for either sign of b.
PyFloorDiv(a, b) == IF b > 0 THEN FloorPos(a, b) ELSE FloorPos(-a, -b)

\* Python's a % b (b # 0): the remainder has the sign of b.
PyMod(a, b) == a - b * PyFloorDiv(a, b)

\* Python's min(a, b).
Min(a, b) == IF a <= b THEN a ELSE b

\* int(True) = 1, int(False) = 0: a bool added to an int.
BoolInt(b) == IF b THEN 1 ELSE 0

\* shape[1:] of a tuple.
Rest(shape) == SubSeq(shape, 2, Len(shape))

RECURSIVE Product(_)
\* np.product of a tuple (1 for the empty tuple).
Product(t) == IF Len(t) = 0 THEN 1 ELSE Head(t) * Product(Tail(t))

\* ------------------------------------------------------- results of a call
\* A call either returns a value or raises; err = "none" means it returned.
Returns(v) == [err |-> "none", val |-> v]
Raises(e, v) == [err |-> e, val |-> v]
NoSlice == [start |-> 0, stop |-> 0]

\* ------------------------------------------------------ partition planner
\* distribute_shape comparing the remainder with >= instead of >.
distribute_shape_ge(shape, rank, size) ==
    IF Len(shape) = 0
    THEN IF size > 1 THEN Raises("ValueError", <<>>) ELSE Returns(<<>>)
    ELSE IF size = 0
    THEN Raises("ZeroDivisionError", <<>>)
    ELSE Returns(<<PyFloorDiv(shape[1], size)
                   + BoolInt(PyMod(shape[1], size) >= rank)>> \o Rest(shape))

\* distribute_shape giving the remainder to the highest ranks.
distribute_shape_high(shape, rank, size) ==
    IF Len(shape) = 0
    THEN IF size > 1 THEN Raises("ValueError", <<>>) ELSE Returns(<<>>)
    ELSE IF size = 0
    THEN Raises("ZeroDivisionError", <<>>)
    ELSE Returns(<<PyFloorDiv(shape[1], size)
                   + BoolInt(PyMod(shape[1], size) > size - 1 - rank)>>
                 \o Rest(shape))

\* distribute_shape(shape, rank, size): the local shape, or the exception.
distribute_shape(shape, rank, size) ==
    IF Len(shape) = 0
    THEN IF size > 1 THEN Raises("ValueError", <<>>) ELSE Returns(<<>>)
    ELSE IF size = 0
    THEN Raises("ZeroDivisionError", <<>>)
    ELSE LET nglobal == shape[1]
             nlocal  == PyFloorDiv(nglobal, size)
                        + BoolInt(PyMod(nglobal, size) > rank)
         IN  Returns(<<nlocal>> \o Rest(shape))

\* distribute_slice without the min(rank, nglobal % size) term of start.
distribute_slice_nomin(nglobal, rank, size) ==
    IF size = 0
    THEN Raises("ZeroDivisionError", NoSlice)
    ELSE LET nlocal == PyFloorDiv(nglobal, size)
                       + BoolInt(PyMod(nglobal, size) > rank)
             start  == PyFloorDiv(nglobal, size) * rank
         IN  Returns([start |-> start, stop |-> start + nlocal])

\* distribute_slice(nglobal, rank, size): slice(start, stop), or the exception.
distribute_slice(nglobal, rank, size) ==
    IF size = 0
    THEN Raises("ZeroDivisionError", NoSlice)
    ELSE LET nlocal == PyFloorDiv(nglobal, size)
                       + BoolInt(PyMod(nglobal, size) > rank)
             start  == PyFloorDiv(nglobal, size) * rank
                       + Min(rank, PyMod(nglobal, size))
             stop   == start + nlocal
         IN  Returns([start |-> start, stop |-> stop])

\* ------------------------------------------------------------------ arrays
\* The itemsizes (bytes per element) of the arrays of a run.
ItemSizes == {1, 2}

\* What an element reads as when its bytes are not those of one value.
Garbage == -1

\* An array: its dtype's itemsize and its elements in C (row-major) order.
Array(isz, data) == [itemsize |-> isz, data |-> data]

\* np.zeros(n) of the given itemsize.
Zeros(n, isz) == Array(isz, [i \in 1..n |-> 0])

\* input.astype(dtype): the same values at another itemsize.
astype(a, isz) == Array(isz, a.data)

\* Byte j of a.view(np.byte): byte k of the element of value v is written
\* <<v, k>>.
view_byte(a, j) == <<a.data[((j - 1) \div a.itemsize) + 1], (j - 1) % a.itemsize>>

\* len(a.view(np.byte)).
nbytes_of(a) == Len(a.data) * a.itemsize

\* --------------------------------------------------------- MPI collectives
\* comm.Allgatherv(send, [recv, (counts, displs)]) as seen by one process,
\* byte j of its receive buffer afterwards: sent[q] is the array whose bytes
\* rank q sent, and bytes displs[q] .. displs[q] + counts[q] - 1 of the receive
\* buffer receive them; every other byte is left as it was.
Allgatherv(sent, recv, counts, displs, j) ==
    LET from == {q \in DOMAIN sent :
                    /\ q + 1 <= Len(counts) /\ q + 1 <= Len(displs)
                    /\ displs[q + 1] < j /\ j <= displs[q + 1] + counts[q + 1]
                    /\ j - displs[q + 1] <= nbytes_of(sent[q])}
    IN  IF from = {} THEN view_byte(recv, j)
        ELSE LET q == CHOOSE q \in from : \A p \in from : p <= q
             IN  view_byte(sent[q], j - displs[q + 1])

\* The array output after Allgatherv received into output.view(np.byte): an
\* element whose bytes are bytes 0..itemsize-1 of one value reads as that
\* value, anything else as Garbage.
Gathered(sent, output, counts, displs) ==
    LET nb == output.itemsize
    IN  Array(nb,
            [i \in 1..Len(output.data) |->
                LET v == Allgatherv(sent, output, counts, displs, (i - 1) * nb + 1)[1]
                IN  IF \A k \in 0..(nb - 1) :
                          Allgatherv(sent, output, counts, displs, (i - 1) * nb + k + 1)
                          = <<v, k>>
                    THEN v ELSE Garbage])

RECURSIVE SumRanks(_, _, _)
\* The sum over ranks 0..n-1 of element i of each rank's buffer.
SumRanks(bufs, n, i) ==
    IF n = 0 THEN 0 ELSE bufs[n - 1].data[i] + SumRanks(bufs, n - 1, i)

\* comm.Allreduce(MPI.IN_PLACE, output, op=MPI.SUM) as seen by one process:
\* bufs[q] is rank q's output array on entry; the result is their
\* element-wise sum.
Allreduce_SUM(bufs, size, output) ==
    Array(output.itemsize,
          [i \in 1..Len(output.data) |-> SumRanks(bufs, size, i)])

\* -------------------------------------------- DistributionGlobalOperator
\* A shape argument: None, or a tuple of dimensions.
None == [none |-> TRUE, dims |-> <<>>]
Shape(dims) == [none |-> FALSE, dims |-> dims]

\* What a failed construction leaves: no operator, only the exception.
NoOperator(e) ==
    [err |-> e, class |-> "none", shapein |-> <<>>, shapeout |-> <<>>,
     slice |-> NoSlice, counts |-> <<>>, offsets |-> <<>>]

RECURSIVE PartitionLoop_noproduct(_, _, _, _, _)
\* The loop of __init__ without the factor np.product(shapein[1:]).
PartitionLoop_noproduct(dims, size, rank, counts, offsets) ==
    IF rank >= size THEN [counts |-> counts, offsets |-> offsets]
    ELSE LET s == distribute_slice(dims[1], rank, size).val
             n == s.stop - s.start
         IN  PartitionLoop_noproduct(dims, size, rank + 1, Append(counts, n),
                                     Append(offsets, offsets[Len(offsets)] + n))

RECURSIVE PartitionLoop(_, _, _, _, _)
\* The loop "for rank in range(commout.size)" of __init__, from rank on:
\* appends each rank's count to counts and the running sum to offsets.
PartitionLoop(dims, size, rank, counts, offsets) ==
    IF rank >= size THEN [counts |-> counts, offsets |-> offsets]
    ELSE LET s == distribute_slice(dims[1], rank, size).val
             n == (s.stop - s.start) * Product(Rest(dims))
         IN  PartitionLoop(dims, size, rank + 1, Append(counts, n),
                           Append(offsets, offsets[Len(offsets)] + n))

\* __init__ taking an empty shape for a single item when it is not split.
DGO_init_scalar(shp, rank, size) ==
    IF shp.none THEN NoOperator("ValueError")
    ELSE LET shapeout == distribute_shape(shp.dims, rank, size)
         IN  IF shapeout.err # "none" THEN NoOperator(shapeout.err)
             ELSE LET dims   == IF Len(shp.dims) = 0 THEN <<1>> ELSE shp.dims
                      slice_ == distribute_slice(dims[1], rank, size).val
                      t      == PartitionLoop(dims, size, 0, <<>>, <<0>>)
                  IN  [err |-> "none", class |-> "DGO",
                       shapein |-> shp.dims, shapeout |-> shapeout.val,
                       slice |-> slice_, counts |-> t.counts,
                       offsets |-> SubSeq(t.offsets, 1, Len(t.offsets) - 1)]

\* DistributionGlobalOperator(shapein, commout) on the process of the given
\* rank of a communicator of the given size: the operator, or the exception.
DGO_init(shp, rank, size) ==
    IF shp.none THEN NoOperator("ValueError")
    ELSE LET shapeout == distribute_shape(shp.dims, rank, size)
         IN  IF shapeout.err # "none" THEN NoOperator(shapeout.err)
             ELSE IF Len(shp.dims) = 0 THEN NoOperator("IndexError")
             ELSE LET slice_ == distribute_slice(shp.dims[1], rank, size).val
                      t      == PartitionLoop(shp.dims, size, 0, <<>>, <<0>>)
                  IN  [err |-> "none", class |-> "DGO",
                       shapein |-> shp.dims, shapeout |-> shapeout.val,
                       slice |-> slice_, counts |-> t.counts,
                       offsets |-> SubSeq(t.offsets, 1, Len(t.offsets) - 1)]

\* direct(self, input, output): the operator and the output array afterwards.
DGO_direct(self, input, output) ==
    LET inner == Product(Rest(self.shapein))
    IN  [self |-> self,
         output |-> Array(output.itemsize,
                          SubSeq(input.data, self.slice.start * inner + 1,
                                 self.slice.stop * inner))]

\* transpose, up to the collective: the array whose bytes are sent.
DGO_transpose_send(self, input, output) ==
    IF input.itemsize # output.itemsize THEN astype(input, output.itemsize)
    ELSE input

\* transpose passing the offsets to Allgatherv in elements, not in bytes.
DGO_transpose_unscaled(self, sent, output) ==
    LET nb == output.itemsize
    IN  [self |-> self,
         output |-> Gathered(sent, output,
                        [i \in 1..Len(self.counts) |-> self.counts[i] * nb],
                        self.offsets)]

\* transpose scaling self.counts and self.offsets in place before the call.
DGO_transpose_inplace(self, sent, output) ==
    LET nb  == output.itemsize
        new == [self EXCEPT
                   !.counts = [i \in 1..Len(self.counts) |-> self.counts[i] * nb],
                   !.offsets = [i \in 1..Len(self.offsets) |-> self.offsets[i] * nb]]
    IN  [self |-> new,
         output |-> Gathered(sent, output, new.counts, new.offsets)]

\* transpose, the collective: sent[q] is the array rank q sent. The operator
\* and the output array afterwards.
DGO_transpose(self, sent, output) ==
    LET nb == output.itemsize
    IN  [self |-> self,
         output |-> Gathered(sent, output,
                        [i \in 1..Len(self.counts) |-> self.counts[i] * nb],
                        [i \in 1..Len(self.offsets) |-> self.offsets[i] * nb])]

\* ------------------------------------------ DistributionIdentityOperator
\* DistributionIdentityOperator(commout): keeps the communicator only.
DIO_init(rank, size) ==
    [err |-> "none", class |-> "DIO", shapein |-> <<>>, shapeout |-> <<>>,
     slice |-> NoSlice, counts |-> <<>>, offsets |-> <<>>]

\* direct(self, input, output); same_data tells whether the two share storage.
DIO_direct(self, input, output, same_data) ==
    IF same_data THEN [self |-> self, output |-> output]
    ELSE [self |-> self, output |-> Array(output.itemsize, input.data)]

\* transpose reducing the output array without assigning the input to it.
DIO_transpose_send_noassign(self, input, output, same_data) == output

\* transpose, up to the collective: the output array as it enters Allreduce.
DIO_transpose_send(self, input, output, same_data) ==
    IF ~same_data THEN Array(output.itemsize, input.data) ELSE output

\* transpose, the collective: sent[q] is rank q's output array on entry.
DIO_transpose(self, sent, size, output) ==
    [self |-> self, output |-> Allreduce_SUM(sent, size, output)]

\* ------------------------------------------------------------ the processes
\* The ranks of the communicator.
Ranks == 0..(comm_size - 1)

\* The number of elements of the global arrays of the run.
GlobalLen == IF shapein.none THEN 0 ELSE Product(shapein.dims)

\* The global arrays a caller feeds: 1, 2, ..., n and n, ..., 2, 1.
GlobalArrays(n, isz) ==
    {Array(isz, [i \in 1..n |-> i]), Array(isz, [i \in 1..n |-> n + 1 - i])}

\* a * k, element by element.
Scale(a, k) == Array(a.itemsize, [i \in 1..Len(a.data) |-> a.data[i] * k])

\* The global shapes of the runs of the operators.
OpShapes ==
    {None, Shape(<<>>)} \cup {Shape(<<n>>) : n \in 0..MaxN}
                        \cup {Shape(<<n, 2>>) : n \in 0..MaxN}

\* No contribution to a collective.
NoSend == [input |-> Zeros(0, 1), arr |-> Zeros(0, 1), same |-> FALSE]

\* No call has returned yet.
NoCall ==
    [rank |-> -1, call |-> "none", input |-> Zeros(0, 1), output |-> Zeros(0, 1),
     same |-> FALSE, round |-> <<>>]

\* The array process r holds when the run starts: np.zeros(shapeout), of some
\* itemsize, for the scatter/gather operator, x_global * (rank + 1) for the
\* identity operator.
InitialLocal(k, o, xg, r, isz) ==
    IF k = "DGO"
    THEN Zeros(IF o.err = "none" THEN Product(o.shapeout) ELSE 0, isz)
    ELSE Scale(xg, r + 1)

\* A program: calls transpose calls; the identity operator is called with
\* output sharing the input's storage (same_data) as the set same allows.
Program(calls, same) == [calls |-> calls, same |-> same]

\* Every process issues MaxCalls transpose calls, in place or not.
UniformPlans(size) == {[r \in 0..(size - 1) |-> Program(MaxCalls, BOOLEAN)]}

\* Each process issues its own number of transpose calls: none, all of them,
\* or all but the last; never in place.
AnyPlans(size) ==
    [0..(size - 1) -> {Program(n, {FALSE}) : n \in {0, MaxCalls - 1, MaxCalls}}]

\* One global array: all zeros.
ZeroArrays(n, isz) == {Zeros(n, isz)}

\* The state after every process constructed its operator, for a communicator
\* size drawn from sizes; the processes run the programs of UniformPlans on the
\* arrays of GlobalArrays, or (sync) those of AnyPlans on the arrays of
\* ZeroArrays.
OpInit(k, sizes, shapes, itemsizes, sync) ==
    /\ kind = k
    /\ comm_size \in sizes
    /\ shapein \in shapes
    /\ nbytes \in itemsizes
    /\ x_global \in IF sync THEN ZeroArrays(GlobalLen, nbytes)
                             ELSE GlobalArrays(GlobalLen, nbytes)
    /\ plan \in IF sync THEN AnyPlans(comm_size) ELSE UniformPlans(comm_size)
    /\ op = [r \in Ranks |-> IF kind = "DGO" THEN DGO_init(shapein, r, comm_size)
                                              ELSE DIO_init(r, comm_size)]
    /\ \E isz \in itemsizes :
        x_local = [r \in Ranks |-> InitialLocal(kind, op[r], x_global, r, isz)]
    /\ pc = [r \in Ranks |-> "idle"]
    /\ ready = [r \in Ranks |-> FALSE]
    /\ commbuf = [r \in Ranks |-> NoSend]
    /\ gathered = [r \in Ranks |-> NoSend]
    /\ entered = [r \in Ranks |-> 0]
    /\ returned = [r \in Ranks |-> 0]
    /\ last = NoCall
    /\ shape_res = <<>>
    /\ slice_res = <<>>

\* The shapes of the arrays of the runs of the identity operator.
ArrayShapes == {Shape(<<MaxN>>)}

Init ==
    \/ OpInit("DGO", 1..MaxSize, OpShapes, ItemSizes, FALSE)
    \/ OpInit("DIO", 1..MaxSize, ArrayShapes, {1}, FALSE)

SyncInit ==
    \/ OpInit("DGO", 1..MaxSize, {Shape(<<2>>)}, {1}, TRUE)
    \/ OpInit("DIO", 1..MaxSize, {Shape(<<2>>)}, {1}, TRUE)

\* What the calls of the planner leave alone.
UnchangedRun == UNCHANGED <<kind, shapein, comm_size, nbytes, x_global, plan>>
UnchangedPlanner == UNCHANGED <<shape_res, slice_res>>
UnchangedComm == UNCHANGED <<pc, ready, commbuf, gathered, entered, returned>>

\* Process r can call a method of its operator.
CanCall(r, k) == kind = k /\ op[r].err = "none" /\ pc[r] = "idle"

\* x_local = d(x): process r applies direct to a global array.
DGO_Direct(r) ==
    /\ CanCall(r, "DGO")
    /\ \E input \in {x_global, Zeros(GlobalLen, nbytes)} :
        LET res == DGO_direct(op[r], input, x_local[r])
        IN  /\ op' = [op EXCEPT ![r] = res.self]
            /\ x_local' = [x_local EXCEPT ![r] = res.output]
            /\ last' = [rank |-> r, call |-> "DGO.direct", input |-> input,
                        output |-> res.output, same |-> FALSE, round |-> <<>>]
    /\ UnchangedRun /\ UnchangedPlanner /\ UnchangedComm

\* Process r enters a collective with what it sends. The collective completes
\* when every other process is already waiting in it: what each process sent
\* is then what every process of the communicator receives.
EnterCollective(r, send) ==
    /\ entered[r] < plan[r].calls
    /\ pc' = [pc EXCEPT ![r] = "wait"]
    /\ entered' = [entered EXCEPT ![r] = @ + 1]
    /\ IF \A q \in Ranks \ {r} : pc[q] = "wait" /\ ~ready[q]
       THEN /\ ready' = [q \in Ranks |-> TRUE]
            /\ gathered' = [commbuf EXCEPT ![r] = send]
            /\ commbuf' = [q \in Ranks |-> NoSend]
       ELSE /\ ready' = ready
            /\ gathered' = gathered
            /\ commbuf' = [commbuf EXCEPT ![r] = send]
    /\ UNCHANGED <<op, x_local, last, returned>>

\* A collective that returns without waiting for the other processes.
LeaveCollective_nowait(r) ==
    /\ pc[r] = "wait"
    /\ pc' = [pc EXCEPT ![r] = "idle"]
    /\ ready' = [ready EXCEPT ![r] = FALSE]
    /\ returned' = [returned EXCEPT ![r] = @ + 1]
    /\ gathered' = gathered
    /\ UNCHANGED <<entered, commbuf>>

\* Process r leaves the collective it waits in, once it has completed.
LeaveCollective(r) ==
    /\ pc[r] = "wait"
    /\ ready[r]
    /\ pc' = [pc EXCEPT ![r] = "idle"]
    /\ ready' = [ready EXCEPT ![r] = FALSE]
    /\ returned' = [returned EXCEPT ![r] = @ + 1]
    /\ gathered' = IF \A q \in Ranks \ {r} : ~ready[q]
                   THEN [q \in Ranks |-> NoSend] ELSE gathered
    /\ UNCHANGED <<entered, commbuf>>

\* d.T(x_local), first half: process r enters Allgatherv.
DGO_TransposeEnter(r) ==
    /\ CanCall(r, "DGO")
    /\ \E send \in {[input |-> x_local[r],
                      arr |-> DGO_transpose_send(op[r], x_local[r],
                                                 Zeros(GlobalLen, nbytes)),
                      same |-> FALSE]} :
           EnterCollective(r, send)
    /\ UnchangedRun /\ UnchangedPlanner

\* d.T(x_local), second half: Allgatherv returns on process r.
DGO_TransposeReturn(r) ==
    /\ kind = "DGO"
    /\ LeaveCollective(r)
    /\ \E sent \in {[q \in Ranks |-> gathered[q].arr]} :
       \E output \in {Zeros(GlobalLen, nbytes)} :
       \E res \in {DGO_transpose(op[r], sent, output)} :
           /\ op' = [op EXCEPT ![r] = res.self]
           /\ last' = [rank |-> r, call |-> "DGO.transpose",
                       input |-> gathered[r].input, output |-> res.output,
                       same |-> FALSE, round |-> gathered]
    /\ UNCHANGED x_local
    /\ UnchangedRun /\ UnchangedPlanner

\* d(x): process r applies the identity operator's direct, in place or not.
DIO_Direct(r) ==
    /\ CanCall(r, "DIO")
    /\ \E same \in plan[r].same :
        LET input  == x_local[r]
            output == IF same THEN input ELSE Zeros(GlobalLen, nbytes)
            res    == DIO_direct(op[r], input, output, same)
        IN  /\ op' = [op EXCEPT ![r] = res.self]
            /\ x_local' = IF same THEN [x_local EXCEPT ![r] = res.output]
                                  ELSE x_local
            /\ last' = [rank |-> r, call |-> "DIO.direct", input |-> input,
                        output |-> res.output, same |-> same, round |-> <<>>]
    /\ UnchangedRun /\ UnchangedPlanner /\ UnchangedComm

\* d.T(x), first half: process r assigns its output and enters Allreduce.
DIO_TransposeEnter(r) ==
    /\ CanCall(r, "DIO")
    /\ \E same \in plan[r].same :
        \E input \in {x_local[r]} :
        \E output \in {IF same THEN input ELSE Zeros(GlobalLen, nbytes)} :
        \E send \in {[input |-> input,
                      arr |-> DIO_transpose_send(op[r], input, output, same),
                      same |-> same]} :
            EnterCollective(r, send)
    /\ UnchangedRun /\ UnchangedPlanner

\* d.T(x), second half: Allreduce returns on process r.
DIO_TransposeReturn(r) ==
    /\ kind = "DIO"
    /\ LeaveCollective(r)
    /\ \E sent \in {[q \in Ranks |-> gathered[q].arr]} :
       \E same \in {gathered[r].same} :
       \E res \in {DIO_transpose(op[r], sent, comm_size, sent[r])} :
           /\ op' = [op EXCEPT ![r] = res.self]
           /\ x_local' = IF same THEN [x_local EXCEPT ![r] = res.output]
                                 ELSE x_local
           /\ last' = [rank |-> r, call |-> "DIO.transpose",
                       input |-> gathered[r].input, output |-> res.output,
                       same |-> same, round |-> gathered]
    /\ UnchangedRun /\ UnchangedPlanner

Next ==
    \/ \E r \in Ranks : DGO_Direct(r)
    \/ \E r \in Ranks : DGO_TransposeEnter(r)
    \/ \E r \in Ranks : DGO_TransposeReturn(r)
    \/ \E r \in Ranks : DIO_Direct(r)
    \/ \E r \in Ranks : DIO_TransposeEnter(r)
    \/ \E r \in Ranks : DIO_TransposeReturn(r)

Spec == Init /\ [][Next]_vars

\* ------------------------------------------- planner calls, constructions
\* The shape arguments of the planner calls and of the constructions.
PlanShapes ==
    {None, Shape(<<>>)} \cup {Shape(<<n>>) : n \in -1..MaxPlanN}
                        \cup {Shape(<<n, m>>) : n \in 0..3, m \in {0, 2}}

\* The rank arguments of the planner calls: also -1 and ranks >= size.
RankArgs == -1..(MaxPlanSize + 1)

\* No operator constructed yet.
NotConstructed == NoOperator("not constructed")

\* The rank the next call of a table's function is made with.
NextRank(table) == Cardinality(DOMAIN table) - 1

\* A table with the result of the call for one more rank.
Record(table, rank, res) ==
    [q \in DOMAIN table \cup {rank} |-> IF q = rank THEN res ELSE table[q]]

\* The state before any planner call and any construction.
PlanInit ==
    /\ kind = "plan"
    /\ shapein \in PlanShapes
    /\ comm_size \in -1..MaxPlanSize
    /\ nbytes = 1
    /\ x_global = Zeros(0, 1)
    /\ plan = [r \in Ranks |-> Program(0, {FALSE})]
    /\ op = [r \in Ranks |-> NotConstructed]
    /\ x_local = [r \in Ranks |-> Zeros(0, 1)]
    /\ pc = [r \in Ranks |-> "idle"]
    /\ ready = [r \in Ranks |-> FALSE]
    /\ commbuf = [r \in Ranks |-> NoSend]
    /\ gathered = [r \in Ranks |-> NoSend]
    /\ entered = [r \in Ranks |-> 0]
    /\ returned = [r \in Ranks |-> 0]
    /\ last = NoCall
    /\ shape_res = <<>>
    /\ slice_res = <<>>

UnchangedOps == UNCHANGED <<x_local, last>>

\* distribute_shape(shapein, rank, size) is called.
Call_distribute_shape(rank) ==
    /\ kind = "plan"
    /\ ~shapein.none
    /\ rank = NextRank(shape_res)
    /\ shape_res' = Record(shape_res, rank,
                           distribute_shape(shapein.dims, rank, comm_size))
    /\ UNCHANGED <<slice_res, op>>
    /\ UnchangedRun /\ UnchangedComm /\ UnchangedOps

\* distribute_slice(shapein[0], rank, size) is called.
Call_distribute_slice(rank) ==
    /\ kind = "plan"
    /\ ~shapein.none
    /\ Len(shapein.dims) > 0
    /\ rank = NextRank(slice_res)
    /\ slice_res' = Record(slice_res, rank,
                           distribute_slice(shapein.dims[1], rank, comm_size))
    /\ UNCHANGED <<shape_res, op>>
    /\ UnchangedRun /\ UnchangedComm /\ UnchangedOps

\* The process of rank r calls DistributionGlobalOperator(shapein).
DGO_Construct(r) ==
    /\ kind = "plan"
    /\ op[r] = NotConstructed
    /\ op' = [op EXCEPT ![r] = DGO_init(shapein, r, comm_size)]
    /\ UnchangedRun /\ UnchangedPlanner /\ UnchangedComm /\ UnchangedOps

PlanNext ==
    \/ \E rank \in RankArgs : Call_distribute_shape(rank)
    \/ \E rank \in RankArgs : Call_distribute_slice(rank)
    \/ \E r \in Ranks : DGO_Construct(r)

PlanSpec == PlanInit /\ [][PlanNext]_vars

\* Every process keeps running its program: it enters the transpose calls it
\* has left and leaves a collective that has completed.
Fairness ==
    /\ \A r \in 0..(MaxSize - 1) : WF_vars(r \in Ranks /\ DGO_TransposeEnter(r))
    /\ \A r \in 0..(MaxSize - 1) : WF_vars(r \in Ranks /\ DGO_TransposeReturn(r))
    /\ \A r \in 0..(MaxSize - 1) : WF_vars(r \in Ranks /\ DIO_TransposeEnter(r))
    /\ \A r \in 0..(MaxSize - 1) : WF_vars(r \in Ranks /\ DIO_TransposeReturn(r))

FairSpec == SyncInit /\ [][Next]_vars /\ Fairness

\* ============================================================== properties
\* ------------------------------------------------- the partition arithmetic
\* The planner calls of the run have the arguments the planner is meant for:
\* a shape with a first dimension nglobal >= 0 and size >= 1.
ValidPlan ==
    /\ kind = "plan" /\ ~shapein.none /\ Len(shapein.dims) > 0
    /\ shapein.dims[1] >= 0 /\ comm_size >= 1

NGlobal == shapein.dims[1]

\* The ranks of the communicator a table holds a result for.
RanksIn(table) == {r \in 0..(comm_size - 1) : r \in DOMAIN table}

\* The local extents the two functions returned for a rank.
ShapeExtent(r) == shape_res[r].val[1]
SliceExtent(r) == slice_res[r].val.stop - slice_res[r].val.start

RECURSIVE SumExtents(_)
\* The sum of the extents distribute_shape returned for ranks 0..n-1.
SumExtents(n) == IF n = 0 THEN 0 ELSE ShapeExtent(n - 1) + SumExtents(n - 1)

\* C3: for nglobal >= 0 and size >= 1 the slices distribute_slice returns for
\* ranks 0..size-1 tile [0, nglobal) in rank order: the first starts at 0, each
\* stops where the next starts, the last stops at nglobal, none is reversed.
SlicesTile ==
    ValidPlan =>
        /\ \A r \in RanksIn(slice_res) :
            /\ slice_res[r].err = "none"
            /\ slice_res[r].val.start <= slice_res[r].val.stop
            /\ r = 0 => slice_res[r].val.start = 0
            /\ r = comm_size - 1 => slice_res[r].val.stop = NGlobal
        /\ \A r \in RanksIn(slice_res) :
            (r + 1) \in RanksIn(slice_res) =>
                slice_res[r].val.stop = slice_res[r + 1].val.start

\* C3's case: all the slices of a non-divisible extent over >= 3 ranks.
SlicesTileWitness ==
    /\ ValidPlan /\ comm_size >= 3 /\ NGlobal % comm_size # 0
    /\ NGlobal > comm_size
    /\ RanksIn(slice_res) = 0..(comm_size - 1)

\* C4: for nglobal >= 0 and size >= 1 the first dimensions distribute_shape
\* returns for ranks 0..size-1 sum to nglobal.
ExtentsSum ==
    (ValidPlan /\ RanksIn(shape_res) = 0..(comm_size - 1)) =>
        /\ \A r \in RanksIn(shape_res) : shape_res[r].err = "none"
        /\ SumExtents(comm_size) = NGlobal

\* C4's case: 16 items over 3 ranks, all extents computed.
ExtentsSumWitness ==
    /\ ValidPlan /\ NGlobal = 16 /\ comm_size = 3
    /\ RanksIn(shape_res) = 0..2

\* C5: for nglobal >= 0 and size >= 1 any two ranks' extents differ by at most
\* one, the extent does not increase with the rank, and exactly the
\* nglobal % size lowest ranks get the larger extent nglobal \div size + 1;
\* distribute_shape and distribute_slice agree on it.
LoadBalance ==
    ValidPlan =>
        /\ \A r1, r2 \in RanksIn(shape_res) :
            /\ ShapeExtent(r1) - ShapeExtent(r2) \in {-1, 0, 1}
            /\ r1 < r2 => ShapeExtent(r1) >= ShapeExtent(r2)
        /\ \A r \in RanksIn(shape_res) :
            ShapeExtent(r) = (NGlobal \div comm_size)
                             + (IF r < NGlobal % comm_size THEN 1 ELSE 0)
        /\ \A r \in RanksIn(slice_res) :
            SliceExtent(r) = (NGlobal \div comm_size)
                             + (IF r < NGlobal % comm_size THEN 1 ELSE 0)

\* C5's case: nglobal = 16, size = 3 gives the extents 6, 5, 5 and the
\* offsets 0, 6, 11.
LoadBalanceWitness ==
    /\ ValidPlan /\ NGlobal = 16 /\ comm_size = 3
    /\ RanksIn(shape_res) = 0..2 /\ RanksIn(slice_res) = 0..2
    /\ <<ShapeExtent(0), ShapeExtent(1), ShapeExtent(2)>> = <<6, 5, 5>>
    /\ <<slice_res[0].val.start, slice_res[1].val.start, slice_res[2].val.start>>
       = <<0, 6, 11>>

\* The arguments of a planner call break a precondition the specification
\* states: size <= 0, rank outside [0, size), or nglobal < 0.
BadArgs(rank) ==
    \/ comm_size <= 0
    \/ rank < 0
    \/ rank >= comm_size
    \/ (Len(shapein.dims) > 0 /\ shapein.dims[1] < 0)

\* C7: every planner call with size <= 0, rank outside [0, size) or
\* nglobal < 0 raises and returns no extent or slice. The code checks none of
\* these: only size = 0 raises (the division by zero), and an empty shape
\* with size > 1.
PreconditionsChecked ==
    /\ \A rank \in DOMAIN shape_res : BadArgs(rank) => shape_res[rank].err # "none"
    /\ \A rank \in DOMAIN slice_res : BadArgs(rank) => slice_res[rank].err # "none"

\* ----------------------------------------------------------- construction
\* Process r constructed its operator on a shape of dimensions >= 0.
Constructed(r) ==
    /\ kind = "plan" /\ op[r].err = "none"
    /\ \A i \in 1..Len(shapein.dims) : shapein.dims[i] >= 0

\* nglobal // size + (1 if nglobal % size > rank else 0), for nglobal >= 0.
LocalExtent(n, r, size) == (n \div size) + (IF n % size > r THEN 1 ELSE 0)

\* One count and one offset per process, count[q] = localExtent(q) *
\* product(shapein[1:]), offsets[0] = 0 and offsets[i+1] = offsets[i] + counts[i].
TableOf(o) ==
    /\ Len(o.counts) = comm_size
    /\ Len(o.offsets) = comm_size
    /\ \A q \in 0..(comm_size - 1) :
        o.counts[q + 1] = LocalExtent(shapein.dims[1], q, comm_size)
                          * Product(Rest(shapein.dims))
    /\ o.offsets[1] = 0
    /\ \A i \in 1..(comm_size - 1) : o.offsets[i + 1] = o.offsets[i] + o.counts[i]

\* C6 as stated: the table of every constructed operator is as TableOf says
\* and its offsets are strictly increasing.
PartitionTableStrict ==
    \A r \in Ranks :
        Constructed(r) =>
            /\ TableOf(op[r])
            /\ \A i \in 1..(comm_size - 1) : op[r].offsets[i] < op[r].offsets[i + 1]

\* C6 as amended: the table of every constructed operator is as TableOf says
\* and its offsets never decrease; offsets[i+1] exceeds offsets[i] exactly
\* when counts[i] > 0 (a rank with no item repeats the offset).
PartitionTable ==
    \A r \in Ranks :
        Constructed(r) =>
            /\ TableOf(op[r])
            /\ \A i \in 1..(comm_size - 1) :
                /\ op[r].offsets[i] <= op[r].offsets[i + 1]
                /\ op[r].offsets[i] < op[r].offsets[i + 1] <=> op[r].counts[i] > 0

\* C6's case: a table over >= 3 processes of a two-dimensional shape with
\* fewer rows than processes, so that an offset is repeated.
PartitionTableWitness ==
    \E r \in Ranks :
        /\ Constructed(r) /\ comm_size >= 3 /\ Len(shapein.dims) = 2
        /\ op[r].counts[1] > 1
        /\ \E i \in 1..(comm_size - 1) : op[r].offsets[i] = op[r].offsets[i + 1]

\* C8: a construction on None or on an empty shape ends in an exception for
\* every communicator size >= 1 and leaves no operator, hence no slice, counts
\* or offsets; distribute_shape on an empty shape raises when size > 1.
ConstructionRejects ==
    kind = "plan" =>
        /\ \A r \in Ranks :
            (op[r] # NotConstructed /\ (shapein.none \/ Len(shapein.dims) = 0)) =>
                /\ op[r].err \in {"ValueError", "IndexError"}
                /\ op[r] = NoOperator(op[r].err)
        /\ (~shapein.none /\ Len(shapein.dims) = 0 /\ comm_size > 1) =>
            \A rank \in DOMAIN shape_res : shape_res[rank].err = "ValueError"

\* C8's case: the empty shape on a communicator of one process, where
\* distribute_shape returns () and the construction still fails.
ConstructionRejectsWitness ==
    /\ kind = "plan" /\ comm_size = 1 /\ ~shapein.none /\ Len(shapein.dims) = 0
    /\ op[0].err = "IndexError"
    /\ 0 \in DOMAIN shape_res /\ shape_res[0].err = "none"

\* ------------------------------------------------------------- the methods
\* What direct gives process q from the global array of the run.
Forward(q) == DGO_direct(op[q], x_global, x_local[q]).output.data

\* Every process entered the transpose call that returned last with the
\* result of direct on the global array of the run.
AllForwarded ==
    \A q \in Ranks : last.round[q].input.data = Forward(q)

\* C1: when every process applies transpose to what direct gave it from the
\* global array G, the output of transpose is G on every process, element for
\* element and in the original order.
RoundTrip ==
    (last.call = "DGO.transpose" /\ AllForwarded) => last.output = x_global

\* C1's case: 3 items over 2 processes, local arrays of 1 byte per element
\* gathered into a global array of 2 bytes per element.
RoundTripWitness ==
    /\ last.call = "DGO.transpose" /\ AllForwarded
    /\ comm_size = 2 /\ shapein.dims = <<3>>
    /\ nbytes = 2 /\ last.input.itemsize = 1
    /\ last.rank = 1

RECURSIVE SumInputs(_, _, _)
\* Element i of the sum of the inputs of ranks 0..n-1 of a round.
SumInputs(round, n, i) ==
    IF n = 0 THEN 0 ELSE SumInputs(round, n - 1, i) + round[n - 1].input.data[i]

\* C2: the output of the identity operator's transpose is on every process
\* the element-wise sum of the inputs of all the processes, whether the
\* process reduced in place (the input array then holds the sum) or not.
ReductionCorrect ==
    last.call = "DIO.transpose" =>
        /\ Len(last.output.data) = GlobalLen
        /\ \A i \in 1..GlobalLen :
            last.output.data[i] = SumInputs(last.round, comm_size, i)
        /\ last.same => x_local[last.rank] = last.output

\* C2's case: a second round of two processes, one reducing in place and the
\* other into a separate output.
ReductionCorrectWitness ==
    /\ last.call = "DIO.transpose" /\ comm_size = 2
    /\ returned[last.rank] = 2
    /\ last.round[0].same /\ ~last.round[1].same

RECURSIVE ConcatInputs(_, _)
\* The inputs of ranks 0..n-1 of a round, one after the other.
ConcatInputs(round, n) ==
    IF n = 0 THEN <<>> ELSE ConcatInputs(round, n - 1) \o round[n - 1].input.data

\* C10: after any calls the operator of every process is the one its
\* construction computed (slice, counts, offsets and shapes), and the result
\* of the call that returned last is a function of that call's inputs and of
\* the construction alone: direct gives the slice of its input, transpose the
\* inputs of the round in rank order, the identity operator's direct its input.
Stateless ==
    /\ \A r \in Ranks :
        op[r] = IF kind = "DGO" THEN DGO_init(shapein, r, comm_size)
                                ELSE DIO_init(r, comm_size)
    /\ last.call = "DGO.direct" =>
        LET built == DGO_init(shapein, last.rank, comm_size)
            inner == Product(Rest(shapein.dims))
        IN  last.output.data = SubSeq(last.input.data, built.slice.start * inner + 1,
                                      built.slice.stop * inner)
    /\ last.call = "DGO.transpose" =>
        last.output.data = ConcatInputs(last.round, comm_size)
    /\ last.call = "DIO.direct" => last.output.data = last.input.data

\* C10's case: every process has returned from two transpose calls and a
\* direct call followed them, on arrays of 2 bytes per element.
StatelessWitness ==
    /\ kind = "DGO" /\ comm_size = 2 /\ nbytes = 2 /\ GlobalLen = 3
    /\ \A r \in Ranks : returned[r] = 2
    /\ last.call = "DGO.direct"

\* ---------------------------------------------------------- the collective
\* The smallest number of transpose calls a process of the run issues.
MinPlan == CHOOSE n \in 0..MaxCalls :
               /\ \E r \in Ranks : plan[r].calls = n
               /\ \A r \in Ranks : plan[r].calls >= n

\* Process r's direct can be called and returns in one step.
DirectEnabled(r) == ENABLED (DGO_Direct(r) \/ DIO_Direct(r))

\* A process returns from its k-th transpose only after every process entered
\* its k-th transpose.
BarrierSafe == \A r, q \in Ranks : returned[r] <= entered[q]

\* Every process has returned from all the transpose calls of its program.
AllReturned == \A r \in Ranks : returned[r] = plan[r].calls /\ pc[r] = "idle"

\* Process r waits in a transpose call that some process never enters.
Blocked(r) ==
    (r \in Ranks /\ plan[r].calls > MinPlan) =>
        (pc[r] = "wait" /\ ~ready[r] /\ returned[r] = MinPlan)

\* C9: transpose is a blocking collective. A process returns from its k-th
\* call only after every process entered its k-th call; when all issue the
\* same number of calls, all of them eventually return; a process that issues
\* more calls than another ends blocked for ever in the first unmatched one;
\* and direct never waits: a process outside a collective can always call it.
CollectiveBlocks ==
    /\ []BarrierSafe
    /\ (\A r, q \in Ranks : plan[r].calls = plan[q].calls) => <>AllReturned
    /\ \A r \in 0..(MaxSize - 1) : <>[]Blocked(r)
    /\ [](\A r \in Ranks : (op[r].err = "none" /\ pc[r] = "idle") => DirectEnabled(r))

\* C9's case: a process waits in a transpose call while another, whose
\* program has no call left, is idle.
CollectiveBlocksWitness ==
    \E r, q \in Ranks :
        /\ pc[r] = "wait" /\ ~ready[r] /\ entered[r] = 2
        /\ pc[q] = "idle" /\ returned[q] = plan[q].calls /\ plan[q].calls = 1

====
